---- MODULE Spec2Model ----
\* Wallet ledger and rental-plan entitlement core of tiktok-review-saas
\* (backend/server.js over the PostgreSQL schema of database/init.sql).
\*
\* Every HTTP request is a process; its steps are the statements it awaits
\* (each await is a suspension point at which other requests run).
\* pool.query(...) runs one autocommitted statement; the deposit handler runs
\* BEGIN .. COMMIT on one client, whose writes stay private to the
\* transaction until COMMIT (READ COMMITTED, row lock taken by UPDATE).
\*
\* Money: request amounts are JS numbers; the model resolves them to quarter
\* cents (1/400 of a currency unit), the columns NUMERIC(14,2) store cents.
EXTENDS Integers, FiniteSets, Sequences, TLC

\* ---------------------------------------------------------------- bounds
MaxReq ==
    2

Reqs == 1..MaxReq

\* users.id of the registered users.
Users == {1, 2}

\* ------------------------------------------------------ program constants
\* server.js:279  if (amount > 1_000_000)
MaxAmount ==
    1000000

\* server.js:330  if (months > 24)
MaxMonths ==
    24

\* server.js:314  LIMIT 100
ListLimit ==
    100

\* server.js:533  LIMIT 20
RecentLimit ==
    20

\* server.js:540  LIMIT 10
TopLimit ==
    10

\* server.js:49  if (entry.count >= 30)
RateLimit ==
    30

\* server.js:44  15 * 60 * 1000 milliseconds
WindowMs == 15 * 60 * 1000

VARIABLES
    wallet_accounts,       \* table: set of rows [id, user_id, balance, currency]
    wallet_transactions,   \* table: set of rows [id, wallet_id, user_id, tx_type, amount, status,
                           \*                      created_at]
    wallet_seq,            \* wallet_accounts_id_seq: next value
    tx_seq,                \* wallet_transactions_id_seq: next value
    user_rentals,          \* table: set of rows [id, user_id, plan_id, months, total_price, status,
                           \*                      created_at, ends_at]
    rental_seq,            \* user_rentals_id_seq: next value
    users_plan,            \* users.plan, per user id
    rental_plans,          \* table: set of rows [id, code, monthly_price, max_video_jobs, active]
    users_role,            \* users.role, per user id
    products,              \* table: set of rows [id, user_id]
    video_jobs,            \* table: set of rows [id, user_id, product_ref, status]
    video_seq,             \* video_jobs_id_seq: next value
    showcase_uploads,      \* table: set of rows [id, user_id, video_job_id]
    clock,                 \* the store's clock, what NOW() reads
    authRateMap,           \* the limiter's Map: key -> [count, startedAt]
    dateNow,               \* Date.now() of the server process, in milliseconds
    client,                \* per request: pool clients acquired and released
    res,                   \* per request: the response sent, [status, error]
    txn,                   \* per request: the open transaction of its client
    pc,                    \* per request: the statement it awaits next
    req,                   \* per request: the inputs of the HTTP request
    loc                    \* per request: the handler's local variables

dbvars == <<wallet_accounts, wallet_transactions, wallet_seq, tx_seq,
            user_rentals, rental_seq, users_plan, rental_plans,
            users_role, products, video_jobs, video_seq, showcase_uploads>>
walletdb == <<wallet_accounts, wallet_transactions, wallet_seq, tx_seq>>
rentdb == <<user_rentals, rental_seq, users_plan, rental_plans>>
\* The tables neither the wallet nor the rental statements write, and the clock.
others == <<users_role, products, video_jobs, video_seq, showcase_uploads, clock>>
\* The limiter's state, and with it what the server keeps per request
\* besides the handler's locals.
limiter == <<authRateMap, dateNow>>
web == <<authRateMap, dateNow, client, res>>
vars == <<wallet_accounts, wallet_transactions, wallet_seq, tx_seq,
          user_rentals, rental_seq, users_plan, rental_plans,
          users_role, products, video_jobs, video_seq, showcase_uploads, clock,
          authRateMap, dateNow, client, res,
          txn, pc, req, loc>>

\* ------------------------------------------------------------ JS values
\* Number(req.body.amount): a finite number (q quarter cents), NaN or an
\* infinity.  q is 0 for the non-finite values.
Num(q) == [kind |-> "num", q |-> q]
NaN == [kind |-> "nan", q |-> 0]
Infinity == [kind |-> "inf", q |-> 0]
\* req.body.months: absent (undefined), or a number with a fractional part
\* (q + 1/2).
Absent == [kind |-> "undef", q |-> 0]
Frac(q) == [kind |-> "frac", q |-> q]

\* One currency unit in quarter cents: 4 to the cent, 100 cents.
UnitQ == 4 * 100

\* The amounts the requests are drawn from: non-finite, negative, zero,
\* a quarter cent, the maximum, a quarter cent above the maximum.
AmountInputs ==
    {NaN, Infinity, Num(-4), Num(0), Num(1),
     Num(MaxAmount * UnitQ), Num(MaxAmount * UnitQ + 1)}

\* Assignment of a numeric to a NUMERIC(14,2) column: rounded to cents,
\* ties away from zero (amounts here are never negative when stored).
NUMERIC_14_2(q) == (q + 2) \div 4

\* wallet.rows[0] of an empty result.
Undefined == 0

\* A TIMESTAMP value: whole months since the start and, within the month,
\* microseconds (the resolution of the column type).
Epoch == [months |-> 0, micros |-> 0]

Before(a, b) ==
    \/ a.months < b.months
    \/ a.months = b.months /\ a.micros < b.micros

\* t + (n || ' month')::INTERVAL
PlusMonths(t, n) == [t EXCEPT !.months = @ + n]

\* now: what NOW() and CURRENT_TIMESTAMP read inside the transaction, the
\* time of its BEGIN.
NoTxn == [open |-> FALSE, locks |-> {}, balance |-> {}, rows |-> {}, now |-> Epoch]
NoReq == [op |-> "none", user |-> 0, amount |-> NaN, planCode |-> "", months |-> NaN,
          productDbId |-> NaN, tokenRole |-> "user", id |-> NaN, role |-> "",
          ip |-> "", path |-> ""]
NoLoc == [wallet |-> Undefined, plan |-> Undefined, rental |-> Undefined, expired |-> {},
          product |-> Undefined, activeRental |-> <<>>, rows |-> <<>>, results |-> <<>>]

\* ----------------------------------------------------------- responses
\* No response sent yet.
NoRes == [status |-> 0, error |-> ""]

\* res.json(body) of a success: status 200, no error member.
Ok == [status |-> 200, error |-> ""]

\* res.status(status).json({ error })
Json(status, error) == [status |-> status, error |-> error]

\* What the store's driver throws when a statement or a connection fails:
\* an Error with the store's message and without a status member.
StoreErrors ==
    { [status |-> Undefined, message |-> m] :
        m \in {"deadlock detected", "Connection terminated unexpectedly"} }

\* Reading wallet.id of an undefined wallet.
TypeError ==
    [status |-> Undefined, message |-> "Cannot read properties of undefined (reading 'id')"]

\* parsePositiveInt's error: status 400, `${fieldName} must be a positive integer`.
PositiveIntError(fieldName) ==
    [status |-> 400, message |-> fieldName \o " must be a positive integer"]

\* Mutant: the middleware answers every error with its own message.
ErrorMiddlewareLeaks(error) ==
    [status |-> IF error.status = Undefined THEN 500 ELSE error.status,
     error |-> error.message]

\* app.use((error, _req, res, _next) => ...): status = error.status || 500;
\* the fixed text for status >= 500, else error.message.
ErrorMiddleware(error) ==
    LET status == IF error.status = Undefined THEN 500 ELSE error.status
    IN  [status |-> status,
         error |-> IF status >= 500 THEN "Internal server error" ELSE error.message]

\* pool.connect() and client.release() calls of a request so far.
NoClient == [acquired |-> 0, released |-> 0]

\* No request has reached the server: nothing answered, no client taken,
\* the limiter's Map empty.
InitWeb ==
    /\ authRateMap = <<>>
    /\ dateNow = 0
    /\ client = [r \in Reqs |-> NoClient]
    /\ res = [r \in Reqs |-> NoRes]

\* ------------------------------------------------------------- schema
\* init.sql:90-94: the seeded catalog; active defaults to TRUE.
SeedPlans ==
    { [id |-> 1, code |-> "starter", monthly_price |-> 299,  max_video_jobs |-> 30,   active |-> TRUE],
      [id |-> 2, code |-> "growth",  monthly_price |-> 999,  max_video_jobs |-> 150,  active |-> TRUE],
      [id |-> 3, code |-> "pro",     monthly_price |-> 2499, max_video_jobs |-> 1000, active |-> TRUE] }

\* The catalog with the plans of `off` switched off (rental_plans.active is a
\* column an operator of the database may clear; the code only reads it).
Catalog(off) ==
    { [p EXCEPT !.active = (p.code \notin off)] : p \in SeedPlans }

InitTables ==
    /\ wallet_accounts = {}
    /\ wallet_transactions = {}
    /\ wallet_seq = 1
    /\ tx_seq = 1
    /\ user_rentals = {}
    /\ rental_seq = 1
    /\ users_plan = [u \in Users |-> "free"]
    /\ txn = [r \in Reqs |-> NoTxn]
    /\ pc = [r \in Reqs |-> "idle"]
    /\ req = [r \in Reqs |-> NoReq]
    /\ loc = [r \in Reqs |-> NoLoc]
    /\ InitWeb

\* No product, video job or upload yet; every user has role 'user'
\* (init.sql:5); the clock at its start.
InitOthers ==
    /\ users_role = [u \in Users |-> "user"]
    /\ products = {}
    /\ video_jobs = {}
    /\ video_seq = 1
    /\ showcase_uploads = {}
    /\ clock = Epoch

\* --------------------------------------------------------- ensureWallet
\* Mutant: no unique index arbitrates, the insert never sees a conflict.
WalletConflictMissed(userId) ==
    FALSE

\* wallet_accounts.user_id is UNIQUE: the arbiter of ON CONFLICT (user_id).
WalletConflict(userId) ==
    \E w \in wallet_accounts : w.user_id = userId

\* Mutant: ON CONFLICT (user_id) DO UPDATE SET balance = 0.
ensureWalletUpsert(userId) ==
    /\ wallet_seq' = wallet_seq + 1
    /\ wallet_accounts' =
         IF WalletConflict(userId)
         THEN { IF w.user_id = userId THEN [w EXCEPT !.balance = 0] ELSE w
                  : w \in wallet_accounts }
         ELSE wallet_accounts \cup
                {[id |-> wallet_seq, user_id |-> userId, balance |-> 0, currency |-> "THB"]}

\* INSERT INTO wallet_accounts (user_id, balance, currency) VALUES ($1, 0, 'THB')
\* ON CONFLICT (user_id) DO NOTHING.  The id default (nextval) is evaluated
\* before the conflict is detected, so a losing insert still draws a value.
ensureWalletInsert(userId) ==
    /\ wallet_seq' = wallet_seq + 1
    /\ wallet_accounts' =
         IF WalletConflict(userId)
         THEN wallet_accounts
         ELSE wallet_accounts \cup
                {[id |-> wallet_seq, user_id |-> userId, balance |-> 0, currency |-> "THB"]}

\* SELECT ... FROM wallet_accounts WHERE user_id=$1; return wallet.rows[0].
\* The results an execution may return: any matching row, or undefined.
ensureWalletSelect(userId) ==
    LET rows == {w \in wallet_accounts : w.user_id = userId}
    IN  IF rows = {} THEN {Undefined} ELSE {w.id : w \in rows}

\* Whether the insert raises a unique violation (23505) for userId: with
\* ON CONFLICT (user_id) DO NOTHING it never does.
InsertRaises(userId) ==
    FALSE

\* A raised violation would leave ensureWallet through the handler's
\* rejection (500, pc "conflict"), having drawn its sequence value.
EwInsert(r) ==
    /\ pc[r] = "ew_insert"
    /\ IF InsertRaises(req[r].user)
       THEN /\ wallet_seq' = wallet_seq + 1
            /\ UNCHANGED wallet_accounts
            /\ pc' = [pc EXCEPT ![r] = "conflict"]
            /\ \E e \in StoreErrors : res' = [res EXCEPT ![r] = ErrorMiddleware(e)]
       ELSE /\ ensureWalletInsert(req[r].user)
            /\ pc' = [pc EXCEPT ![r] = "ew_select"]
            /\ UNCHANGED res
    /\ UNCHANGED <<limiter, client, wallet_transactions, tx_seq, rentdb, others, txn, req, loc>>

EwSelect(r) ==
    /\ pc[r] = "ew_select"
    /\ \E w \in ensureWalletSelect(req[r].user) :
         loc' = [loc EXCEPT ![r].wallet = w]
    /\ pc' = [pc EXCEPT ![r] = CASE req[r].op = "deposit" -> "connect"
                                 [] req[r].op = "list" -> "sel_tx"
                                 [] OTHER -> "done"]
    /\ res' = IF req[r].op \in {"deposit", "list"} THEN res ELSE [res EXCEPT ![r] = Ok]
    /\ UNCHANGED <<limiter, client, dbvars, clock, txn, req>>

\* A pool.query of ensureWallet is rejected by the store: ensureWallet
\* throws, and so does the handler that awaits it (500).
EwFail(r) ==
    /\ pc[r] \in {"ew_insert", "ew_select"}
    /\ pc' = [pc EXCEPT ![r] = "failed"]
    /\ \E e \in StoreErrors : res' = [res EXCEPT ![r] = ErrorMiddleware(e)]
    /\ req' = [req EXCEPT ![r] = NoReq]
    /\ loc' = [loc EXCEPT ![r] = NoLoc]
    /\ UNCHANGED <<limiter, client, dbvars, clock, txn>>

\* GET /wallet
WalletStart(r, u) ==
    /\ pc[r] = "idle"
    /\ req' = [req EXCEPT ![r] = [NoReq EXCEPT !.op = "wallet", !.user = u]]
    /\ pc' = [pc EXCEPT ![r] = "ew_insert"]
    /\ UNCHANGED <<web, dbvars, clock, txn, loc>>

\* ------------------------------------------------------- POST /wallet/deposit
\* Mutant: the lower bound tested with < instead of <=.
DepositRejectsBelowZero(amount) ==
    \/ amount.kind # "num"
    \/ amount.q < 0
    \/ amount.q > MaxAmount * UnitQ

\* Mutant: no lower bound on the amount.
DepositAcceptsNegative(amount) ==
    \/ amount.kind # "num"
    \/ amount.q > MaxAmount * UnitQ

\* !Number.isFinite(amount) || amount <= 0   -> 400 "amount must be > 0"
\* amount > 1_000_000                        -> 400 "amount too large"
DepositRejects(amount) ==
    \/ amount.kind # "num"
    \/ amount.q <= 0
    \/ amount.q > MaxAmount * UnitQ

\* The rejection's text: the first test's, or the second's.
DepositError(amount) ==
    IF amount.kind = "num" /\ amount.q > 0 THEN "amount too large" ELSE "amount must be > 0"

DepositStart(r, u, a) ==
    /\ pc[r] = "idle"
    /\ req' = [req EXCEPT ![r] = [NoReq EXCEPT !.op = "deposit", !.user = u, !.amount = a]]
    /\ pc' = [pc EXCEPT ![r] = IF DepositRejects(a) THEN "rejected" ELSE "ew_insert"]
    /\ res' = IF DepositRejects(a) THEN [res EXCEPT ![r] = Json(400, DepositError(a))] ELSE res
    /\ UNCHANGED <<limiter, client, dbvars, clock, txn, loc>>

\* Mutant: the update takes no row lock (a read-modify-write of a snapshot).
RowNeverLocked(r, wid) ==
    FALSE

\* A row is locked by the transaction that updated it, until that
\* transaction ends.
RowLocked(r, wid) ==
    \E o \in Reqs \ {r} : wid \in txn[o].locks

\* The balance the UPDATE of request r reads for row wid: the latest
\* committed version (or the transaction's own pending one).
BalanceRead(r, w) ==
    w.balance

\* const client = await pool.connect(): a client is checked out.
Connect(r) ==
    /\ pc[r] = "connect"
    /\ client' = [client EXCEPT ![r].acquired = @ + 1]
    /\ pc' = [pc EXCEPT ![r] = "begin"]
    /\ UNCHANGED <<limiter, res, dbvars, clock, txn, req, loc>>

\* pool.connect() rejects (no connection to be had): the handler throws
\* before its try block, holding no client; 500.
ConnectFail(r) ==
    /\ pc[r] = "connect"
    /\ pc' = [pc EXCEPT ![r] = "failed"]
    /\ \E e \in StoreErrors : res' = [res EXCEPT ![r] = ErrorMiddleware(e)]
    /\ req' = [req EXCEPT ![r] = NoReq]
    /\ loc' = [loc EXCEPT ![r] = NoLoc]
    /\ UNCHANGED <<limiter, client, dbvars, clock, txn>>

\* client.query("BEGIN")
Begin(r) ==
    /\ pc[r] = "begin"
    /\ txn' = [txn EXCEPT ![r] = [NoTxn EXCEPT !.open = TRUE, !.now = clock]]
    /\ pc' = [pc EXCEPT ![r] = "update"]
    /\ UNCHANGED <<web, dbvars, clock, req, loc>>

\* UPDATE wallet_accounts SET balance = balance + $1 WHERE id=$2 RETURNING *
\* Waits while another transaction holds the row; then locks it and writes
\* the new version, private until COMMIT.
\* Reading wallet.id of an undefined wallet throws inside the try block.
Update(r) ==
    /\ pc[r] = "update"
    /\ IF loc[r].wallet = Undefined
       THEN /\ pc' = [pc EXCEPT ![r] = "rollback"]
            /\ UNCHANGED txn
       ELSE /\ ~RowLocked(r, loc[r].wallet)
            /\ LET rows == {w \in wallet_accounts : w.id = loc[r].wallet}
               IN  txn' = [txn EXCEPT
                             ![r].locks = {w.id : w \in rows},
                             ![r].balance =
                                {[id |-> w.id,
                                  balance |-> NUMERIC_14_2(BalanceRead(r, w) * 4 + req[r].amount.q)]
                                   : w \in rows}]
            /\ pc' = [pc EXCEPT ![r] = "insert"]
    /\ UNCHANGED <<web, dbvars, clock, req, loc>>

\* INSERT INTO wallet_transactions (wallet_id, user_id, tx_type, amount, status, ...)
\* VALUES ($1,$2,'deposit',$3,'completed',...).  The sequence value is drawn
\* at once (sequences are not rolled back); the row is private until COMMIT.
\* created_at defaults to CURRENT_TIMESTAMP, the time the transaction began.
Insert(r) ==
    /\ pc[r] = "insert"
    /\ tx_seq' = tx_seq + 1
    /\ txn' = [txn EXCEPT ![r].rows =
                 {[id |-> tx_seq, wallet_id |-> loc[r].wallet, user_id |-> req[r].user,
                   tx_type |-> "deposit", amount |-> NUMERIC_14_2(req[r].amount.q),
                   status |-> "completed", created_at |-> txn[r].now]}]
    /\ pc' = [pc EXCEPT ![r] = "commit"]
    /\ UNCHANGED <<web, wallet_accounts, wallet_transactions, wallet_seq, rentdb, others, req, loc>>

\* Mutant: the transaction's rows replace the table instead of joining it.
CommittedReplacing(t) ==
    [accounts |->
        { IF \E b \in t.balance : b.id = w.id
          THEN [w EXCEPT !.balance = (CHOOSE b \in t.balance : b.id = w.id).balance]
          ELSE w : w \in wallet_accounts },
     transactions |-> t.rows]

\* The tables after the transaction t's writes are made visible.
Committed(t) ==
    [accounts |->
        { IF \E b \in t.balance : b.id = w.id
          THEN [w EXCEPT !.balance = (CHOOSE b \in t.balance : b.id = w.id).balance]
          ELSE w : w \in wallet_accounts },
     transactions |-> wallet_transactions \cup t.rows]

\* client.query("COMMIT"); res.json(...); finally client.release()
Commit(r) ==
    /\ pc[r] = "commit"
    /\ wallet_accounts' = Committed(txn[r]).accounts
    /\ wallet_transactions' = Committed(txn[r]).transactions
    /\ txn' = [txn EXCEPT ![r] = NoTxn]
    /\ pc' = [pc EXCEPT ![r] = "done"]
    /\ res' = [res EXCEPT ![r] = Ok]
    /\ client' = [client EXCEPT ![r].released = @ + 1]
    /\ UNCHANGED <<limiter, wallet_seq, tx_seq, rentdb, others, req, loc>>

\* A statement of the transaction is rejected by the store (BEGIN, UPDATE,
\* INSERT or COMMIT): control passes to the catch block.  A rejected COMMIT
\* has not committed.
StmtFail(r) ==
    /\ pc[r] \in {"begin", "update", "insert", "commit"}
    /\ pc' = [pc EXCEPT ![r] = "rollback"]
    /\ UNCHANGED <<web, dbvars, clock, txn, req, loc>>

\* The errors the catch block may have caught: the store's, or the
\* TypeError of reading wallet.id when ensureWallet returned undefined.
\* The handler only rethrows the error, so the model draws it where it is
\* rethrown.
Caught(r) ==
    StoreErrors \cup (IF loc[r].wallet = Undefined THEN {TypeError} ELSE {})

\* Mutant: the statements ran outside a transaction (pool.query), so what
\* ran before the failure stays.
RollbackKeepsWrites(r) ==
    /\ pc[r] = "rollback"
    /\ wallet_accounts' = Committed(txn[r]).accounts
    /\ wallet_transactions' = Committed(txn[r]).transactions
    /\ txn' = [txn EXCEPT ![r] = NoTxn]
    /\ pc' = [pc EXCEPT ![r] = "failed"]
    /\ \E e \in Caught(r) : res' = [res EXCEPT ![r] = ErrorMiddleware(e)]
    /\ client' = [client EXCEPT ![r].released = @ + 1]
    /\ req' = [req EXCEPT ![r] = NoReq]
    /\ loc' = [loc EXCEPT ![r] = NoLoc]
    /\ UNCHANGED <<limiter, wallet_seq, tx_seq, rentdb, others>>

\* catch: client.query("ROLLBACK"); throw error; finally client.release()
\* The transaction's writes are discarded and its locks released.
Rollback(r) ==
    /\ pc[r] = "rollback"
    /\ txn' = [txn EXCEPT ![r] = NoTxn]
    /\ pc' = [pc EXCEPT ![r] = "failed"]
    /\ \E e \in Caught(r) : res' = [res EXCEPT ![r] = ErrorMiddleware(e)]
    /\ client' = [client EXCEPT ![r].released = @ + 1]
    /\ req' = [req EXCEPT ![r] = NoReq]
    /\ loc' = [loc EXCEPT ![r] = NoLoc]
    /\ UNCHANGED <<limiter, dbvars, clock>>

\* Mutant: client.release() after the try statement instead of in its
\* finally block: an error thrown by the catch block skips it.
RollbackFailKeepsClient(r) ==
    /\ pc[r] = "rollback"
    /\ txn' = [txn EXCEPT ![r] = NoTxn]
    /\ pc' = [pc EXCEPT ![r] = "failed"]
    /\ \E e \in StoreErrors : res' = [res EXCEPT ![r] = ErrorMiddleware(e)]
    /\ req' = [req EXCEPT ![r] = NoReq]
    /\ loc' = [loc EXCEPT ![r] = NoLoc]
    /\ UNCHANGED <<limiter, client, dbvars, clock>>

\* catch: client.query("ROLLBACK") itself is rejected: the catch block
\* throws the ROLLBACK's error in place of the one caught, and finally
\* still runs client.release().  ROLLBACK is rejected when the connection is
\* lost, and the store aborts the transaction of a lost connection: its
\* writes are discarded and its locks released.
RollbackFail(r) ==
    /\ pc[r] = "rollback"
    /\ txn' = [txn EXCEPT ![r] = NoTxn]
    /\ pc' = [pc EXCEPT ![r] = "failed"]
    /\ \E e \in StoreErrors : res' = [res EXCEPT ![r] = ErrorMiddleware(e)]
    /\ client' = [client EXCEPT ![r].released = @ + 1]
    /\ req' = [req EXCEPT ![r] = NoReq]
    /\ loc' = [loc EXCEPT ![r] = NoLoc]
    /\ UNCHANGED <<limiter, dbvars, clock>>

\* The server process stops (kill, crash, restart): every request in flight
\* is gone unanswered, the pool and its clients with it, and the store
\* aborts the transactions of the closed connections.
InFlight(r) ==
    pc[r] \notin {"idle", "done", "rejected", "notfound", "conflict", "denied",
                  "forbidden", "failed", "aborted", "next", "limited"}

Crash ==
    /\ \E r \in Reqs : InFlight(r)
    /\ pc' = [r \in Reqs |-> IF InFlight(r) THEN "aborted" ELSE pc[r]]
    /\ txn' = [r \in Reqs |-> NoTxn]
    /\ req' = [r \in Reqs |-> IF InFlight(r) THEN NoReq ELSE req[r]]
    /\ loc' = [r \in Reqs |-> IF InFlight(r) THEN NoLoc ELSE loc[r]]
    /\ client' = [r \in Reqs |-> IF InFlight(r) THEN NoClient ELSE client[r]]
    /\ UNCHANGED <<limiter, res, dbvars, clock>>

WalletNext ==
    \/ \E r \in Reqs, u \in Users : WalletStart(r, u)
    \/ \E r \in Reqs, u \in Users, a \in AmountInputs : DepositStart(r, u, a)
    \/ \E r \in Reqs : EwInsert(r)
    \/ \E r \in Reqs : EwSelect(r)
    \/ \E r \in Reqs : Connect(r)
    \/ \E r \in Reqs : Begin(r)
    \/ \E r \in Reqs : Update(r)
    \/ \E r \in Reqs : Insert(r)
    \/ \E r \in Reqs : Commit(r)
    \/ \E r \in Reqs : StmtFail(r)
    \/ \E r \in Reqs : Rollback(r)
    \/ \E r \in Reqs : ConnectFail(r)
    \/ \E r \in Reqs : RollbackFail(r)
    \/ Crash

WalletInit ==
    /\ InitTables
    /\ InitOthers
    /\ rental_plans = Catalog({})

WalletSpec == WalletInit /\ [][WalletNext]_vars

\* ------------------------------------------------------- POST /rent/subscribe
\* safeText(value, max): String(value ?? "").trim().slice(0, max).  The
\* texts of the model are the empty text (also what an absent field
\* becomes), a text of blanks, which trim() empties, and plan codes without
\* surrounding blanks and shorter than max, which are kept.
Blank == "   "

safeText(value) ==
    IF value = Blank THEN "" ELSE value

\* value ?? 1
OrOne(value) ==
    IF value.kind = "undef" THEN Num(1) ELSE value

\* Mutant: parsed < 0 instead of parsed <= 0.
parsePositiveIntAllowsZero(value) ==
    \/ value.kind # "num"
    \/ value.q < 0

\* parsePositiveInt: Number(value); throws status 400 unless
\* Number.isInteger(parsed) && parsed > 0.
parsePositiveIntThrows(value) ==
    \/ value.kind # "num"
    \/ value.q <= 0

\* The request bodies the subscribe requests are drawn from.
SubscribeInputs ==
    {[planCode |-> "pro", months |-> m] :
        m \in {Num(3), Num(MaxMonths),
               Num(0), Num(-1), Frac(1), NaN, Num(MaxMonths + 1)}}
    \cup {[planCode |-> c, months |-> Absent] : c \in {"", Blank, "growth", "nope"}}

\* Lines 326-330: everything before the first query.
SubscribeRejects(planCode, months) ==
    \/ parsePositiveIntThrows(OrOne(months))
    \/ safeText(planCode) = ""
    \/ OrOne(months).q > MaxMonths

\* The rejection's answer, the tests in the order of lines 327-330:
\* parsePositiveInt throws to the error middleware, the other two answer.
SubscribeError(planCode, months) ==
    IF parsePositiveIntThrows(OrOne(months)) THEN ErrorMiddleware(PositiveIntError("months"))
    ELSE IF safeText(planCode) = "" THEN Json(400, "planCode is required")
    ELSE Json(400, "months must be <= 24")

SubscribeStart(r, u, b) ==
    /\ pc[r] = "idle"
    /\ req' = [req EXCEPT ![r] = [NoReq EXCEPT !.op = "subscribe", !.user = u,
                                               !.planCode = b.planCode, !.months = b.months]]
    /\ pc' = [pc EXCEPT ![r] = IF SubscribeRejects(b.planCode, b.months)
                               THEN "rejected" ELSE "sel_plan"]
    /\ res' = IF SubscribeRejects(b.planCode, b.months)
              THEN [res EXCEPT ![r] = SubscribeError(b.planCode, b.months)] ELSE res
    /\ UNCHANGED <<limiter, client, dbvars, clock, txn, loc>>

\* Mutant: the query without AND active=TRUE.
PlanRowsAnyActive(planCode) ==
    {p \in rental_plans : p.code = planCode}

\* SELECT * FROM rental_plans WHERE code=$1 AND active=TRUE
PlanRows(planCode) ==
    {p \in rental_plans : p.code = planCode /\ p.active}

\* if (!plan.rows.length) return 404; selected = plan.rows[0]
SelPlan(r) ==
    /\ pc[r] = "sel_plan"
    /\ LET rows == PlanRows(safeText(req[r].planCode))
       IN  IF rows = {}
           THEN /\ pc' = [pc EXCEPT ![r] = "notfound"]
                /\ res' = [res EXCEPT ![r] = Json(404, "Plan not found")]
                /\ UNCHANGED loc
           ELSE /\ \E p \in rows : loc' = [loc EXCEPT ![r].plan = p.id]
                /\ pc' = [pc EXCEPT ![r] = "expire"]
                /\ UNCHANGED res
    /\ UNCHANGED <<limiter, client, dbvars, clock, txn, req>>

\* Mutant: the update without user_id=$1.
ExpireActiveOfAll(userId) ==
    { IF ur.status = "active"
      THEN [ur EXCEPT !.status = "expired"] ELSE ur : ur \in user_rentals }

\* UPDATE user_rentals SET status='expired' WHERE user_id=$1 AND status='active'
\* (pool.query: its own transaction, visible at once)
ExpireActive(userId) ==
    { IF ur.user_id = userId /\ ur.status = "active"
      THEN [ur EXCEPT !.status = "expired"] ELSE ur : ur \in user_rentals }

\* loc.expired: the rows the UPDATE changed (its result; the handler does
\* not read it).
Expire(r) ==
    /\ pc[r] = "expire"
    /\ user_rentals' = ExpireActive(req[r].user)
    /\ loc' = [loc EXCEPT ![r].expired =
                 {ur.id : ur \in {x \in user_rentals : x \notin ExpireActive(req[r].user)}}]
    /\ pc' = [pc EXCEPT ![r] = "ins_rental"]
    /\ UNCHANGED <<web, walletdb, others, rental_seq, users_plan, rental_plans, txn, req>>

Selected(r) ==
    CHOOSE p \in rental_plans : p.id = loc[r].plan

\* Mutant: the price of one month, whatever months is.
totalPriceOneMonth(r) ==
    Selected(r).monthly_price

\* totalPrice = Number(selected.monthly_price) * months
totalPrice(r) ==
    Selected(r).monthly_price * OrOne(req[r].months).q

\* INSERT INTO user_rentals (user_id, plan_id, months, total_price, status, ...)
\* VALUES ($1,$2,$3,$4,'active', NOW(), NOW() + ($3 || ' month')::INTERVAL)
\* RETURNING *      (starts_at and created_at are the same reading of the clock)
InsRental(r) ==
    /\ pc[r] = "ins_rental"
    /\ user_rentals' = user_rentals \cup
          {[id |-> rental_seq, user_id |-> req[r].user, plan_id |-> loc[r].plan,
            months |-> OrOne(req[r].months).q, total_price |-> totalPrice(r),
            status |-> "active", created_at |-> clock,
            ends_at |-> PlusMonths(clock, OrOne(req[r].months).q)]}
    /\ rental_seq' = rental_seq + 1
    /\ loc' = [loc EXCEPT ![r].rental = rental_seq]
    /\ pc' = [pc EXCEPT ![r] = "set_plan"]
    /\ UNCHANGED <<web, walletdb, others, users_plan, rental_plans, txn, req>>

\* UPDATE users SET plan=$1 WHERE id=$2; res.json(...)
SetPlan(r) ==
    /\ pc[r] = "set_plan"
    /\ users_plan' = [users_plan EXCEPT ![req[r].user] = Selected(r).code]
    /\ pc' = [pc EXCEPT ![r] = "done"]
    /\ res' = [res EXCEPT ![r] = Ok]
    /\ UNCHANGED <<limiter, client, walletdb, others, user_rentals, rental_seq, rental_plans,
                   txn, req, loc>>

\* A pool.query of the handler is rejected by the store: the handler
\* throws (500); the statements already run stay committed.
QueryFail(r) ==
    /\ pc[r] \in {"sel_plan", "expire", "ins_rental", "set_plan"}
    /\ pc' = [pc EXCEPT ![r] = "failed"]
    /\ \E e \in StoreErrors : res' = [res EXCEPT ![r] = ErrorMiddleware(e)]
    /\ req' = [req EXCEPT ![r] = NoReq]
    /\ loc' = [loc EXCEPT ![r] = NoLoc]
    /\ UNCHANGED <<limiter, client, dbvars, clock, txn>>

RentNext ==
    \/ \E r \in Reqs, u \in Users, b \in SubscribeInputs : SubscribeStart(r, u, b)
    \/ \E r \in Reqs : SelPlan(r)
    \/ \E r \in Reqs : Expire(r)
    \/ \E r \in Reqs : InsRental(r)
    \/ \E r \in Reqs : SetPlan(r)
    \/ \E r \in Reqs : QueryFail(r)
    \/ Crash

\* The seeded catalog, or the seeded catalog with one plan switched off.
RentInit ==
    /\ InitTables
    /\ InitOthers
    /\ rental_plans \in {Catalog({}), Catalog({"growth"})}

RentSpec == RentInit /\ [][RentNext]_vars

\* The same program when the requests of one user arrive one after the
\* other: a request of u starts only when no request of u is in flight.
UserBusy(u) ==
    \E r \in Reqs : InFlight(r) /\ req[r].user = u

SubscribeStartAlone(r, u, b) ==
    /\ ~UserBusy(u)
    /\ SubscribeStart(r, u, b)

RentSeqNext ==
    \/ \E r \in Reqs, u \in Users, b \in SubscribeInputs : SubscribeStartAlone(r, u, b)
    \/ \E r \in Reqs : SelPlan(r)
    \/ \E r \in Reqs : Expire(r)
    \/ \E r \in Reqs : InsRental(r)
    \/ \E r \in Reqs : SetPlan(r)
    \/ \E r \in Reqs : QueryFail(r)
    \/ Crash

RentSeqSpec == RentInit /\ [][RentSeqNext]_vars

\* Time passes until every rental's ends_at is behind.  The program has no
\* timer and no statement that reads ends_at: nothing runs when it passes.
RECURSIVE LastMonth(_)
LastMonth(rows) ==
    IF rows = {} THEN 0
    ELSE LET x == CHOOSE y \in rows : TRUE
             m == LastMonth(rows \ {x})
         IN  IF x.ends_at.months > m THEN x.ends_at.months ELSE m

MonthsPass ==
    /\ \E ur \in user_rentals : ~Before(ur.ends_at, clock)
    /\ clock' = [clock EXCEPT !.months = LastMonth(user_rentals) + 1]
    /\ UNCHANGED <<web, dbvars, txn, pc, req, loc>>

\* Subscribes to pro for three months and to growth for one, with time
\* passing between the statements.
RentTimeNext ==
    \/ \E r \in Reqs, u \in Users :
          \E b \in {[planCode |-> "pro", months |-> Num(3)],
                    [planCode |-> "growth", months |-> Absent]} : SubscribeStart(r, u, b)
    \/ \E r \in Reqs : SelPlan(r)
    \/ \E r \in Reqs : Expire(r)
    \/ \E r \in Reqs : InsRental(r)
    \/ \E r \in Reqs : SetPlan(r)
    \/ \E r \in Reqs : QueryFail(r)
    \/ Crash
    \/ MonthsPass

RentTimeSpec == RentInit /\ [][RentTimeNext]_vars

\* ------------------------------------------------- GET /wallet/transactions
\* The request is a client's first, or follows the answer to its deposit.
ListStart(r, u) ==
    /\ \/ pc[r] = "idle"
       \/ pc[r] = "done" /\ req[r].op = "deposit"
    /\ req' = [req EXCEPT ![r] = [NoReq EXCEPT !.op = "list", !.user = u]]
    /\ loc' = [loc EXCEPT ![r] = NoLoc]
    /\ res' = [res EXCEPT ![r] = NoRes]
    /\ client' = [client EXCEPT ![r] = NoClient]
    /\ pc' = [pc EXCEPT ![r] = "ew_insert"]
    /\ UNCHANGED <<limiter, dbvars, clock, txn>>

\* ORDER BY ... LIMIT limit over `rows`, where <<a, b>> \in precedes says
\* that the sort key puts a before b: the lists an execution may return.
\* Rows of equal key come in any order, and which of them fall under the
\* limit is not determined either.
OrderBy(rows, limit, precedes) ==
    LET n == IF Cardinality(rows) < limit THEN Cardinality(rows) ELSE limit
    IN  { s \in [1..n -> rows] :
            /\ \A i, j \in 1..n : i < j => (s[i] # s[j] /\ <<s[j], s[i]>> \notin precedes)
            /\ \A x \in rows : (\A i \in 1..n : s[i] # x) =>
                  \A i \in 1..n : <<x, s[i]>> \notin precedes }

\* ORDER BY created_at DESC LIMIT limit
OrderByCreatedAtDesc(rows, limit) ==
    OrderBy(rows, limit,
            {<<a, b>> \in rows \X rows : Before(b.created_at, a.created_at)})

\* SELECT * FROM wallet_transactions WHERE wallet_id=$1
\* ORDER BY created_at DESC LIMIT 100; res.json(data.rows)
\* loc.rows: the ids of the rows returned, in the order returned.
\* Reading wallet.id of an undefined wallet throws (500).
SelTx(r) ==
    /\ pc[r] = "sel_tx"
    /\ IF loc[r].wallet = Undefined
       THEN /\ pc' = [pc EXCEPT ![r] = "failed"]
            /\ res' = [res EXCEPT ![r] = ErrorMiddleware(TypeError)]
            /\ UNCHANGED loc
       ELSE /\ \E s \in OrderByCreatedAtDesc(
                          {t \in wallet_transactions : t.wallet_id = loc[r].wallet},
                          ListLimit) :
                 loc' = [loc EXCEPT ![r].rows = [i \in DOMAIN s |-> s[i].id]]
            /\ pc' = [pc EXCEPT ![r] = "done"]
            /\ res' = [res EXCEPT ![r] = Ok]
    /\ UNCHANGED <<limiter, client, dbvars, clock, txn, req>>

\* The store's clock advances by one microsecond.  Only the order of the
\* readings matters, so the clock is let advance when the current reading
\* has been taken by a transaction.
Tick ==
    /\ \E r \in Reqs : txn[r].open /\ txn[r].now = clock
    /\ clock' = [clock EXCEPT !.micros = @ + 1]
    /\ UNCHANGED <<web, dbvars, txn, pc, req, loc>>

\* The statements of one transaction are round trips to the store, each
\* longer than the clock's resolution: COMMIT is later than BEGIN.
CommitLater(r) ==
    /\ Before(txn[r].now, clock)
    /\ Commit(r)

\* Deposits of one currency unit and listings, with time observed.
LedgerNext ==
    \/ \E r \in Reqs, u \in Users : ListStart(r, u)
    \/ \E r \in Reqs, u \in Users : DepositStart(r, u, Num(UnitQ))
    \/ \E r \in Reqs : EwInsert(r)
    \/ \E r \in Reqs : EwSelect(r)
    \/ \E r \in Reqs : Connect(r)
    \/ \E r \in Reqs : Begin(r)
    \/ \E r \in Reqs : Update(r)
    \/ \E r \in Reqs : Insert(r)
    \/ \E r \in Reqs : CommitLater(r)
    \/ \E r \in Reqs : SelTx(r)
    \/ \E r \in Reqs : StmtFail(r)
    \/ \E r \in Reqs : Rollback(r)
    \/ Crash
    \/ Tick

LedgerSpec == WalletInit /\ [][LedgerNext]_vars

\* ------------------------------------------- POST /video/generate-from-feed
\* The product ids the requests are drawn from: the product of user 1, the
\* product of user 2, and values parsePositiveInt rejects.
ProductInputs == {Num(1), Num(2), Num(0), Absent}

\* parsePositiveInt(req.body.productDbId) throws 400 before any query.
VideoStart(r, u, p) ==
    /\ pc[r] = "idle"
    /\ req' = [req EXCEPT ![r] = [NoReq EXCEPT !.op = "video", !.user = u, !.productDbId = p]]
    /\ pc' = [pc EXCEPT ![r] = IF parsePositiveIntThrows(p) THEN "rejected" ELSE "sel_product"]
    /\ res' = IF parsePositiveIntThrows(p)
              THEN [res EXCEPT ![r] = ErrorMiddleware(PositiveIntError("productDbId"))]
              ELSE res
    /\ UNCHANGED <<limiter, client, dbvars, clock, txn, loc>>

\* SELECT * FROM products WHERE id=$1 AND user_id=$2; 404 without a row.
SelProduct(r) ==
    /\ pc[r] = "sel_product"
    /\ LET rows == {p \in products : p.id = req[r].productDbId.q /\ p.user_id = req[r].user}
       IN  IF rows = {}
           THEN /\ pc' = [pc EXCEPT ![r] = "notfound"]
                /\ res' = [res EXCEPT ![r] = Json(404, "Product not found")]
                /\ UNCHANGED loc
           ELSE /\ \E p \in rows : loc' = [loc EXCEPT ![r].product = p.id]
                /\ pc' = [pc EXCEPT ![r] = "sel_rental"]
                /\ UNCHANGED res
    /\ UNCHANGED <<limiter, client, dbvars, clock, txn, req>>

\* SELECT ur.*, rp.max_video_jobs FROM user_rentals ur JOIN rental_plans rp
\* ON rp.id = ur.plan_id WHERE ur.user_id=$1 AND ur.status='active'
\* ORDER BY ur.created_at DESC LIMIT 1: the results an execution may return,
\* each a list of at most one max_video_jobs (rows with equal created_at
\* come in either order).
activeRentalRows(userId) ==
    LET act == {ur \in user_rentals : ur.user_id = userId /\ ur.status = "active"}
        newest == {ur \in act : \A o \in act : ~Before(ur.created_at, o.created_at)}
        joined == {<<ur, rp>> \in newest \X rental_plans : rp.id = ur.plan_id}
    IN  IF joined = {} THEN {<<>>}
        ELSE {<<j[2].max_video_jobs>> : j \in joined}

\* if (activeRental.rows.length) { ... count ... }
SelRental(r) ==
    /\ pc[r] = "sel_rental"
    /\ \E rows \in activeRentalRows(req[r].user) :
         /\ loc' = [loc EXCEPT ![r].activeRental = rows]
         /\ pc' = [pc EXCEPT ![r] = IF Len(rows) > 0 THEN "count" ELSE "ins_video"]
    /\ UNCHANGED <<web, dbvars, clock, txn, req>>

\* Mutant: the limit tested with > instead of >=.
QuotaReachedAbove(count, maxJobs) ==
    count > maxJobs

\* if (count.rows[0].count >= maxJobs) return 403
QuotaReached(count, maxJobs) ==
    count >= maxJobs

\* SELECT COUNT(*)::int AS count FROM video_jobs WHERE user_id=$1
CountJobs(userId) ==
    Cardinality({v \in video_jobs : v.user_id = userId})

Count(r) ==
    /\ pc[r] = "count"
    /\ pc' = [pc EXCEPT ![r] =
                IF QuotaReached(CountJobs(req[r].user), loc[r].activeRental[1])
                THEN "denied" ELSE "ins_video"]
    /\ res' = IF QuotaReached(CountJobs(req[r].user), loc[r].activeRental[1])
              THEN [res EXCEPT ![r] =
                      Json(403, "Plan limit reached. Please rent a higher plan.")]
              ELSE res
    /\ UNCHANGED <<limiter, client, dbvars, clock, txn, req, loc>>

\* Mutant: generating a video debits the user's wallet by one unit.
InsVideoCharging(r) ==
    /\ pc[r] = "ins_video"
    /\ video_jobs' = video_jobs \cup
          {[id |-> video_seq, user_id |-> req[r].user, product_ref |-> req[r].productDbId.q,
            status |-> "generated"]}
    /\ video_seq' = video_seq + 1
    /\ wallet_accounts' = { IF w.user_id = req[r].user
                            THEN [w EXCEPT !.balance = @ - 100] ELSE w : w \in wallet_accounts }
    /\ pc' = [pc EXCEPT ![r] = "done"]
    /\ res' = [res EXCEPT ![r] = Ok]
    /\ UNCHANGED <<limiter, client, wallet_transactions, wallet_seq, tx_seq, rentdb, users_role,
                   products, showcase_uploads, clock, txn, req, loc>>

\* INSERT INTO video_jobs (user_id, product_ref, status, ...)
\* VALUES ($1,$2,'generated', ...) RETURNING *; res.json(saved.rows[0])
InsVideo(r) ==
    /\ pc[r] = "ins_video"
    /\ video_jobs' = video_jobs \cup
          {[id |-> video_seq, user_id |-> req[r].user, product_ref |-> req[r].productDbId.q,
            status |-> "generated"]}
    /\ video_seq' = video_seq + 1
    /\ pc' = [pc EXCEPT ![r] = "done"]
    /\ res' = [res EXCEPT ![r] = Ok]
    /\ UNCHANGED <<limiter, client, walletdb, rentdb, users_role, products, showcase_uploads,
                   clock, txn, req, loc>>

\* A pool.query of the handler is rejected by the store: 500.
VideoQueryFail(r) ==
    /\ pc[r] \in {"sel_product", "sel_rental", "count", "ins_video"}
    /\ pc' = [pc EXCEPT ![r] = "failed"]
    /\ \E e \in StoreErrors : res' = [res EXCEPT ![r] = ErrorMiddleware(e)]
    /\ req' = [req EXCEPT ![r] = NoReq]
    /\ loc' = [loc EXCEPT ![r] = NoLoc]
    /\ UNCHANGED <<limiter, client, dbvars, clock, txn>>

VideoNext ==
    \/ \E r \in Reqs, u \in Users, p \in ProductInputs : VideoStart(r, u, p)
    \/ \E r \in Reqs : SelProduct(r)
    \/ \E r \in Reqs : SelRental(r)
    \/ \E r \in Reqs : Count(r)
    \/ \E r \in Reqs : InsVideo(r)
    \/ \E r \in Reqs : VideoQueryFail(r)
    \/ Crash

\* No request has arrived.
InitRequests ==
    /\ txn = [r \in Reqs |-> NoTxn]
    /\ pc = [r \in Reqs |-> "idle"]
    /\ req = [r \in Reqs |-> NoReq]
    /\ loc = [r \in Reqs |-> NoLoc]
    /\ InitWeb

\* The video jobs with the given ids of user userId, made from product p.
JobsMade(userId, p, ids) ==
    {[id |-> i, user_id |-> userId, product_ref |-> p, status |-> "generated"] : i \in ids}

\* States the program reaches before the requests of the model start: each
\* user imported one product; user 1 generated `n` video jobs while holding
\* no rental and then subscribed to starter for one month; user 2 holds no
\* rental and generated as many jobs as the starter plan allows.  n is one
\* below the starter limit, or the limit.
VideoInit ==
    /\ InitRequests
    /\ wallet_accounts = {}
    /\ wallet_transactions = {}
    /\ wallet_seq = 1
    /\ tx_seq = 1
    /\ rental_plans = Catalog({})
    /\ user_rentals = {[id |-> 1, user_id |-> 1, plan_id |-> 1, months |-> 1,
                        total_price |-> 299, status |-> "active",
                        created_at |-> Epoch, ends_at |-> PlusMonths(Epoch, 1)]}
    /\ rental_seq = 2
    /\ users_plan = [u \in Users |-> IF u = 1 THEN "starter" ELSE "free"]
    /\ users_role = [u \in Users |-> "user"]
    /\ products = {[id |-> 1, user_id |-> 1], [id |-> 2, user_id |-> 2]}
    /\ showcase_uploads = {}
    /\ clock = Epoch
    /\ \E n \in {29, 30} :
         /\ video_jobs = JobsMade(1, 1, 1..n) \cup JobsMade(2, 2, (n + 1)..(n + 30))
         /\ video_seq = n + 31

VideoSpec == VideoInit /\ [][VideoNext]_vars

\* --------------------------------------------------------- GET /rent/plans
PlansStart(r, u) ==
    /\ pc[r] = "idle"
    /\ req' = [req EXCEPT ![r] = [NoReq EXCEPT !.op = "plans", !.user = u]]
    /\ pc' = [pc EXCEPT ![r] = "sel_plans"]
    /\ UNCHANGED <<web, dbvars, clock, txn, loc>>

\* SELECT code, ... FROM rental_plans WHERE active=TRUE ORDER BY monthly_price ASC
SelPlans(r) ==
    /\ pc[r] = "sel_plans"
    /\ \E s \in OrderBy({p \in rental_plans : p.active}, Cardinality(rental_plans),
                        {<<a, b>> \in rental_plans \X rental_plans :
                            a.monthly_price < b.monthly_price}) :
          loc' = [loc EXCEPT ![r].rows = [i \in DOMAIN s |-> s[i].code]]
    /\ pc' = [pc EXCEPT ![r] = "done"]
    /\ res' = [res EXCEPT ![r] = Ok]
    /\ UNCHANGED <<limiter, client, dbvars, clock, txn, req>>

\* ------------------------------------------------------------- dashboards
RECURSIVE Total(_, _)
Total(rows, field) ==
    IF rows = {} THEN 0
    ELSE LET x == CHOOSE y \in rows : TRUE
         IN  x[field] + Total(rows \ {x}, field)

\* SUM(field) over rows: NULL (the empty list) over no row, else the sum.
SUM(rows, field) ==
    IF rows = {} THEN <<>> ELSE <<Total(rows, field)>>

\* Mutant: the sum without COALESCE, NULL passed on.
PassNull(value, default) ==
    IF value = <<>> THEN 0 - 1 ELSE value[1]

\* COALESCE(value, default)
COALESCE(value, default) ==
    IF value = <<>> THEN default ELSE value[1]

\* The queries of a handler's Promise.all, in the order of the array.
Queries(op) ==
    CASE op = "meta" -> <<"users", "activeRentals", "jobs", "uploads", "rentalsRevenue",
                          "walletTotals", "deposits", "recentTransactions", "topWallets">>
      [] op = "admin" -> <<"users", "activeRentals", "jobs", "uploads">>
      [] op = "udash" -> <<"products", "videoJobs", "myUploads", "activeRental">>
      [] OTHER -> <<>>

\* What a query may return on the committed tables (userId: req.user.id).
QueryResults(q, userId) ==
    CASE q = "users" -> {Cardinality(DOMAIN users_plan)}
      [] q = "activeRentals" -> {Cardinality({ur \in user_rentals : ur.status = "active"})}
      [] q = "jobs" -> {Cardinality(video_jobs)}
      [] q = "uploads" -> {Cardinality(showcase_uploads)}
      [] q = "rentalsRevenue" -> {COALESCE(SUM(user_rentals, "total_price"), 0)}
      [] q = "walletTotals" -> {COALESCE(SUM(wallet_accounts, "balance"), 0)}
      [] q = "deposits" ->
            {COALESCE(SUM({t \in wallet_transactions :
                             t.tx_type = "deposit" /\ t.status = "completed"}, "amount"), 0)}
      [] q = "recentTransactions" ->
            { [i \in DOMAIN s |-> s[i].id] :
                s \in OrderByCreatedAtDesc(
                        {t \in wallet_transactions : t.user_id \in DOMAIN users_plan},
                        RecentLimit) }
      [] q = "topWallets" ->
            { [i \in DOMAIN s |-> s[i].user_id] :
                s \in OrderBy({w \in wallet_accounts : w.user_id \in DOMAIN users_plan},
                              TopLimit,
                              {<<a, b>> \in wallet_accounts \X wallet_accounts :
                                  a.balance > b.balance}) }
      [] q = "products" -> {Cardinality({x \in products : x.user_id = userId})}
      [] q = "videoJobs" -> {CountJobs(userId)}
      [] q = "myUploads" -> {Cardinality({x \in showcase_uploads : x.user_id = userId})}
      [] q = "activeRental" -> activeRentalRows(userId)

\* adminOnly: req.user.role !== "admin" -> 403.  The role is the one in the
\* verified token.
AdminStart(r, u, tokenRole, op) ==
    /\ pc[r] = "idle"
    /\ op \in {"meta", "admin"}
    /\ req' = [req EXCEPT ![r] = [NoReq EXCEPT !.op = op, !.user = u, !.tokenRole = tokenRole]]
    /\ pc' = [pc EXCEPT ![r] = IF tokenRole # "admin" THEN "forbidden" ELSE "query"]
    /\ res' = IF tokenRole # "admin" THEN [res EXCEPT ![r] = Json(403, "Admin only")] ELSE res
    /\ UNCHANGED <<limiter, client, dbvars, clock, txn, loc>>

\* GET /user/dashboard
UserDashStart(r, u) ==
    /\ pc[r] = "idle"
    /\ req' = [req EXCEPT ![r] = [NoReq EXCEPT !.op = "udash", !.user = u]]
    /\ pc' = [pc EXCEPT ![r] = "query"]
    /\ UNCHANGED <<web, dbvars, clock, txn, loc>>

\* One query of the Promise.all resolves; loc.results holds the results so
\* far.  pool.query hands the queries to the pool in the order of the array
\* and the model resolves them in that order, each on the tables as they are
\* when it runs.  After the last one /user/dashboard calls ensureWallet and
\* the admin dashboards answer.
Query(r) ==
    /\ pc[r] = "query"
    /\ LET qs == Queries(req[r].op)
           q == qs[Len(loc[r].results) + 1]
       IN  /\ \E v \in QueryResults(q, req[r].user) :
                 loc' = [loc EXCEPT ![r].results = Append(@, v)]
           /\ pc' = [pc EXCEPT ![r] =
                       IF Len(loc[r].results) + 1 < Len(qs) THEN "query"
                       ELSE IF req[r].op = "udash" THEN "ew_insert" ELSE "done"]
           /\ res' = IF Len(loc[r].results) + 1 < Len(qs) \/ req[r].op = "udash"
                     THEN res ELSE [res EXCEPT ![r] = Ok]
    /\ UNCHANGED <<limiter, client, dbvars, clock, txn, req>>

\* ------------------------------------------- POST /admin/users/:id/role
\* The requests: a promotion of user 2, an id without user, a role the
\* validation rejects, and a caller who is no admin.
RoleInputs ==
    { [tokenRole |-> "admin", id |-> Num(2), role |-> "admin"],
      [tokenRole |-> "admin", id |-> Num(3), role |-> "admin"],
      [tokenRole |-> "admin", id |-> Num(2), role |-> "root"],
      [tokenRole |-> "user",  id |-> Num(2), role |-> "admin"] }

RoleStart(r, u, b) ==
    /\ pc[r] = "idle"
    /\ req' = [req EXCEPT ![r] = [NoReq EXCEPT !.op = "role", !.user = u,
                                   !.tokenRole = b.tokenRole, !.id = b.id, !.role = b.role]]
    /\ pc' = [pc EXCEPT ![r] =
                IF b.tokenRole # "admin" THEN "forbidden"
                ELSE IF parsePositiveIntThrows(b.id) \/ safeText(b.role) \notin {"admin", "user"}
                     THEN "rejected" ELSE "upd_role"]
    /\ res' = IF b.tokenRole # "admin" THEN [res EXCEPT ![r] = Json(403, "Admin only")]
              ELSE IF parsePositiveIntThrows(b.id)
                   THEN [res EXCEPT ![r] = ErrorMiddleware(PositiveIntError("id"))]
              ELSE IF safeText(b.role) \notin {"admin", "user"}
                   THEN [res EXCEPT ![r] = Json(400, "role must be admin or user")]
              ELSE res
    /\ UNCHANGED <<limiter, client, dbvars, clock, txn, loc>>

\* UPDATE users SET role=$1 WHERE id=$2 RETURNING ...; 404 without a row.
UpdRole(r) ==
    /\ pc[r] = "upd_role"
    /\ IF req[r].id.q \in DOMAIN users_role
       THEN /\ users_role' = [users_role EXCEPT ![req[r].id.q] = safeText(req[r].role)]
            /\ pc' = [pc EXCEPT ![r] = "done"]
            /\ res' = [res EXCEPT ![r] = Ok]
       ELSE /\ UNCHANGED users_role
            /\ pc' = [pc EXCEPT ![r] = "notfound"]
            /\ res' = [res EXCEPT ![r] = Json(404, "User not found")]
    /\ UNCHANGED <<limiter, client, walletdb, rentdb, products, video_jobs, video_seq, showcase_uploads,
                   clock, txn, req, loc>>

\* ---------------------------------------------------- the dashboard alone
\* The aggregation snapshot next to deposits and subscribes, on a database
\* without users or with the two users registered.  A request carries a
\* verified token; deposits and subscribes come from registered users.
DashInit ==
    /\ InitRequests
    /\ wallet_accounts = {} /\ wallet_transactions = {}
    /\ wallet_seq = 1 /\ tx_seq = 1
    /\ user_rentals = {} /\ rental_seq = 1
    /\ rental_plans = Catalog({})
    /\ products = {} /\ video_jobs = {} /\ video_seq = 1 /\ showcase_uploads = {}
    /\ clock = Epoch
    /\ \E reg \in {{}, Users} :
         /\ users_plan = [u \in reg |-> "free"]
         /\ users_role = [u \in reg |-> IF u = 1 THEN "admin" ELSE "user"]

DashNext ==
    \/ \E r \in Reqs, t \in {"admin", "user"} : AdminStart(r, 1, t, "meta")
    \/ \E r \in Reqs : Query(r)
    \/ \E r \in Reqs, u \in DOMAIN users_plan : DepositStart(r, u, Num(UnitQ))
    \/ \E r \in Reqs : EwInsert(r)
    \/ \E r \in Reqs : EwSelect(r)
    \/ \E r \in Reqs : Connect(r)
    \/ \E r \in Reqs : Begin(r)
    \/ \E r \in Reqs : Update(r)
    \/ \E r \in Reqs : Insert(r)
    \/ \E r \in Reqs : Commit(r)
    \/ \E r \in Reqs : StmtFail(r)
    \/ \E r \in Reqs : Rollback(r)
    \/ \E r \in Reqs, u \in DOMAIN users_plan :
          SubscribeStart(r, u, [planCode |-> "pro", months |-> Num(3)])
    \/ \E r \in Reqs : SelPlan(r)
    \/ \E r \in Reqs : Expire(r)
    \/ \E r \in Reqs : InsRental(r)
    \/ \E r \in Reqs : SetPlan(r)
    \/ Crash

DashSpec == DashInit /\ [][DashNext]_vars

\* ------------------------------------------------------ every operation
\* User 1 is an admin and has imported one product.
FrameInit ==
    /\ InitTables
    /\ rental_plans = Catalog({})
    /\ users_role = [u \in Users |-> IF u = 1 THEN "admin" ELSE "user"]
    /\ products = {[id |-> 1, user_id |-> 1]}
    /\ video_jobs = {} /\ video_seq = 1 /\ showcase_uploads = {}
    /\ clock = Epoch

\* The operations of user 1, each with an accepted and a rejected input.
FrameNext ==
    \/ \E r \in Reqs : WalletStart(r, 1)
    \/ \E r \in Reqs, a \in {Num(UnitQ), Num(0)} : DepositStart(r, 1, a)
    \/ \E r \in Reqs : ListStart(r, 1)
    \/ \E r \in Reqs : EwInsert(r)
    \/ \E r \in Reqs : EwSelect(r)
    \/ \E r \in Reqs : Connect(r)
    \/ \E r \in Reqs : Begin(r)
    \/ \E r \in Reqs : Update(r)
    \/ \E r \in Reqs : Insert(r)
    \/ \E r \in Reqs : Commit(r)
    \/ \E r \in Reqs : StmtFail(r)
    \/ \E r \in Reqs : Rollback(r)
    \/ \E r \in Reqs : SelTx(r)
    \/ \E r \in Reqs :
          \E b \in {[planCode |-> "pro", months |-> Num(3)],
                    [planCode |-> "pro", months |-> Num(0)]} : SubscribeStart(r, 1, b)
    \/ \E r \in Reqs : SelPlan(r)
    \/ \E r \in Reqs : Expire(r)
    \/ \E r \in Reqs : InsRental(r)
    \/ \E r \in Reqs : SetPlan(r)
    \/ \E r \in Reqs : PlansStart(r, 1)
    \/ \E r \in Reqs : SelPlans(r)
    \/ \E r \in Reqs : AdminStart(r, 1, "admin", "admin")
    \/ \E r \in Reqs : UserDashStart(r, 1)
    \/ \E r \in Reqs : Query(r)
    \/ \E r \in Reqs, b \in RoleInputs : RoleStart(r, 1, b)
    \/ \E r \in Reqs : UpdRole(r)
    \/ \E r \in Reqs : VideoStart(r, 1, Num(1))
    \/ \E r \in Reqs : SelProduct(r)
    \/ \E r \in Reqs : SelRental(r)
    \/ \E r \in Reqs : Count(r)
    \/ \E r \in Reqs : InsVideo(r)
    \/ Crash

FrameSpec == FrameInit /\ [][FrameNext]_vars

\* ------------------------------------------------------------ authRateLimit
\* The requests to /login come from two addresses.
AuthInputs ==
    {[ip |-> "10.0.0.1", path |-> "/login"], [ip |-> "10.0.0.2", path |-> "/login"]}

\* `${req.ip}:${req.path}`
RateKey(ip, path) == ip \o ":" \o path

\* authRateMap.get(key) ?? { count: 0, startedAt: now }
RateEntry(key, now) ==
    IF key \in DOMAIN authRateMap THEN authRateMap[key] ELSE [count |-> 0, startedAt |-> now]

\* authRateMap.set(key, entry)
MapSet(key, entry) ==
    [k \in DOMAIN authRateMap \cup {key} |-> IF k = key THEN entry ELSE authRateMap[k]]

\* Mutant: the window ends at 15 minutes, not after them.
WindowElapsedAtBoundary(now, startedAt) ==
    now - startedAt >= WindowMs

\* now - entry.startedAt > 15 * 60 * 1000
WindowElapsed(now, startedAt) ==
    now - startedAt > WindowMs

\* authRateLimit(req, res, next) runs to its end without awaiting: one step.
\* It answers 429 or calls next(), after which the route's handler runs
\* (pc "next").  A slot takes a client's next request when the previous one
\* has passed the limiter.
AuthRequest(r, ip, path) ==
    LET key == RateKey(ip, path)
        now == dateNow
        entry == RateEntry(key, now)
    IN  /\ pc[r] \in {"idle", "next", "limited"}
        /\ req' = [req EXCEPT ![r] = [NoReq EXCEPT !.op = "auth", !.ip = ip, !.path = path]]
        /\ IF WindowElapsed(now, entry.startedAt)
           THEN /\ authRateMap' = MapSet(key, [count |-> 1, startedAt |-> now])
                /\ res' = [res EXCEPT ![r] = NoRes]
                /\ pc' = [pc EXCEPT ![r] = "next"]
           ELSE IF entry.count >= RateLimit
           THEN /\ UNCHANGED authRateMap
                /\ res' = [res EXCEPT ![r] =
                             Json(429, "Too many requests. Please retry later.")]
                /\ pc' = [pc EXCEPT ![r] = "limited"]
           ELSE /\ authRateMap' = MapSet(key, [entry EXCEPT !.count = @ + 1])
                /\ res' = [res EXCEPT ![r] = NoRes]
                /\ pc' = [pc EXCEPT ![r] = "next"]
        /\ UNCHANGED <<dateNow, client, dbvars, clock, txn, loc>>

\* The readings of Date.now() the model follows: the start, a millisecond
\* later, and for each of the two the instant 15 minutes later.
Instants == {0, 1, WindowMs, WindowMs + 1}

\* Date.now() advances to the instant t between two requests.
TimePasses(t) ==
    /\ t > dateNow
    /\ dateNow' = t
    /\ UNCHANGED <<authRateMap, client, res, dbvars, clock, txn, pc, req, loc>>

\* The limiter handles one request at a time (it never awaits); the model
\* passes them through the first slot.
RateNext ==
    \/ \E b \in AuthInputs : AuthRequest(1, b.ip, b.path)
    \/ \E t \in Instants : TimePasses(t)

RateSpec == WalletInit /\ [][RateNext]_vars

\* ------------------------------------------------------- the error paths
\* The requests of user 1 that write, each with inputs that pass and inputs
\* of every rejection, and every statement may be rejected by the store.
\* User 1 starts as in VideoInit: on starter, one job below the limit or at it.
ErrorNext ==
    \/ \E r \in Reqs :
          \E a \in {Num(UnitQ), Num(0), NaN, Num(MaxAmount * UnitQ + 1)} : DepositStart(r, 1, a)
    \/ \E r \in Reqs : EwInsert(r)
    \/ \E r \in Reqs : EwSelect(r)
    \/ \E r \in Reqs : EwFail(r)
    \/ \E r \in Reqs : Connect(r)
    \/ \E r \in Reqs : ConnectFail(r)
    \/ \E r \in Reqs : Begin(r)
    \/ \E r \in Reqs : Update(r)
    \/ \E r \in Reqs : Insert(r)
    \/ \E r \in Reqs : Commit(r)
    \/ \E r \in Reqs : StmtFail(r)
    \/ \E r \in Reqs : Rollback(r)
    \/ \E r \in Reqs : RollbackFail(r)
    \/ \E r \in Reqs :
          \E b \in {[planCode |-> "pro", months |-> Num(3)],
                    [planCode |-> "pro", months |-> Num(0)],
                    [planCode |-> Blank, months |-> Absent],
                    [planCode |-> "pro", months |-> Num(MaxMonths + 1)],
                    [planCode |-> "nope", months |-> Absent]} : SubscribeStart(r, 1, b)
    \/ \E r \in Reqs : SelPlan(r)
    \/ \E r \in Reqs : Expire(r)
    \/ \E r \in Reqs : InsRental(r)
    \/ \E r \in Reqs : SetPlan(r)
    \/ \E r \in Reqs : QueryFail(r)
    \/ \E r \in Reqs, p \in {Num(1), Num(2), Num(0)} : VideoStart(r, 1, p)
    \/ \E r \in Reqs : SelProduct(r)
    \/ \E r \in Reqs : SelRental(r)
    \/ \E r \in Reqs : Count(r)
    \/ \E r \in Reqs : InsVideo(r)
    \/ \E r \in Reqs : VideoQueryFail(r)
    \/ Crash

ErrorSpec == VideoInit /\ [][ErrorNext]_vars

\* ====================================================================
\* Properties
\* ====================================================================
RECURSIVE SumAmount(_)
SumAmount(rows) ==
    IF rows = {} THEN 0
    ELSE LET x == CHOOSE y \in rows : TRUE
         IN  x.amount + SumAmount(rows \ {x})

\* Sum over the requests R of the amounts they asked for (quarter cents).
RECURSIVE SumRequested(_)
SumRequested(R) ==
    IF R = {} THEN 0
    ELSE LET r == CHOOSE y \in R : TRUE
         IN  req[r].amount.q + SumRequested(R \ {r})

\* The cents a two-decimal column keeps of q quarter cents: the whole
\* cents, and one more when the rest is half a cent or more.
CentsOf(q) ==
    IF q % 4 >= 2 THEN (q \div 4) + 1 ELSE q \div 4

\* Sum over the requests R of the cents kept of the amounts they asked for.

RECURSIVE SumCents(_)
SumCents(R) ==
    IF R = {} THEN 0
    ELSE LET r == CHOOSE y \in R : TRUE
         IN  CentsOf(req[r].amount.q) + SumCents(R \ {r})

WalletsOf(u) == {w \in wallet_accounts : w.user_id = u}
TxOf(w) == {t \in wallet_transactions : t.wallet_id = w.id}
DepositsOf(u) == {r \in Reqs : req[r].op = "deposit" /\ req[r].user = u}
Succeeded(u) == {r \in DepositsOf(u) : pc[r] = "done"}
DepositInFlight(u) == \E r \in DepositsOf(u) : InFlight(r)

\* C1: once every deposit of a user has committed, the wallet balance is the
\* initial balance (0) plus the sum of the amounts deposited, and the wallet
\* has one transaction row per deposit.
C1_BalanceIsSumOfDeposits ==
    \A u \in Users :
        (Succeeded(u) # {} /\ ~DepositInFlight(u)) =>
            \A w \in WalletsOf(u) :
                /\ w.balance * 4 = SumRequested(Succeeded(u))
                /\ Cardinality(TxOf(w)) = Cardinality(Succeeded(u))

\* C4: deposit is all-or-nothing.  In every state the committed tables hold
\* exactly the effect of the deposits that answered with success: a deposit
\* that failed, was aborted or is still running has changed no balance and
\* has no transaction row, and a committed one has both.
C4_DepositAllOrNothing ==
    \A u \in Users :
        /\ \A w \in WalletsOf(u) :
              /\ w.balance = SumCents(Succeeded(u))
              /\ Cardinality(TxOf(w)) = Cardinality(Succeeded(u))
        /\ (WalletsOf(u) = {}) => (Succeeded(u) = {})
        /\ \A t \in wallet_transactions :
              t.user_id = u => \E w \in WalletsOf(u) : t.wallet_id = w.id

\* C4 witness: a deposit failed after its UPDATE and INSERT had run (its
\* transaction-row id was drawn and is used by no row), and another deposit
\* of that user committed.
C4_Witness ==
    /\ \E r \in Reqs : pc[r] = "failed"
    /\ \A r \in Reqs : ~InFlight(r)
    /\ tx_seq - 1 > Cardinality(wallet_transactions)
    /\ \E u \in Users : \E w \in WalletsOf(u) : w.balance > 0

\* C5: ensureWallet under concurrent first access: at most one wallet row per
\* user, every caller that returned holds the id of that one row, never
\* undefined, and no caller ends in an error of the insert it lost.
Returned(r) ==
    /\ req[r].op \in {"deposit", "wallet"}
    /\ pc[r] \in {"begin", "update", "insert", "commit", "rollback", "done"}

C5_OneWalletSameId ==
    /\ \A u \in Users : Cardinality(WalletsOf(u)) <= 1
    /\ \A r \in Reqs : pc[r] # "conflict"
    /\ \A r \in Reqs :
          Returned(r) =>
            /\ loc[r].wallet # Undefined
            /\ WalletsOf(req[r].user) =
                 {w \in wallet_accounts : w.id = loc[r].wallet}
            /\ Cardinality(WalletsOf(req[r].user)) = 1
    /\ \A r1, r2 \in Reqs :
          (Returned(r1) /\ Returned(r2) /\ req[r1].user = req[r2].user)
             => loc[r1].wallet = loc[r2].wallet

\* C5 witness: every request slot called ensureWallet for the same new user
\* and has returned wallet 1; the sequence shows that each call ran its
\* insert, and only one of them created a row.
C5_Witness ==
    /\ \A r \in Reqs : Returned(r) /\ req[r].user = req[1].user
    /\ \A r \in Reqs : loc[r].wallet = 1
    /\ wallet_seq = MaxReq + 1
    /\ Cardinality(wallet_accounts) = 1

\* C6: in every committed state each wallet's balance is the sum of the
\* amounts of its completed deposit rows, and every transaction row belongs
\* to a wallet.
C6_BalanceIsLedgerSum ==
    /\ \A w \in wallet_accounts :
          w.balance = SumAmount({t \in TxOf(w) :
                                   t.tx_type = "deposit" /\ t.status = "completed"})
    /\ \A t \in wallet_transactions :
          \E w \in wallet_accounts : w.id = t.wallet_id /\ w.user_id = t.user_id

\* C6 witness: a wallet with a positive balance and a transaction row,
\* while another deposit to it is past its UPDATE and not committed.
C6_Witness ==
    \E w \in wallet_accounts :
        /\ w.balance > 0
        /\ Cardinality(TxOf(w)) >= 1
        /\ \E r \in Reqs : w.id \in txn[r].locks /\ txn[r].rows # {}

\* C7: a deposit whose amount is not finite, is <= 0 or is > 1,000,000 is
\* answered 400 and writes nothing (no balance, no transaction row, no
\* wallet row, no sequence value), however often it is repeated; an amount
\* of exactly 1,000,000 is not rejected.
ClaimBadAmount(a) ==
    \/ a.kind \in {"nan", "inf"}
    \/ a.kind = "num" /\ (a.q < 1 \/ a.q > 400000000)

C7_Step ==
    \A r \in Reqs :
        /\ (pc[r] = "idle" /\ pc'[r] # "idle" /\ req'[r].op = "deposit") =>
              /\ ClaimBadAmount(req'[r].amount) =>
                    (pc'[r] = "rejected" /\ UNCHANGED dbvars /\ UNCHANGED txn)
              /\ req'[r].amount = Num(400000000) => pc'[r] # "rejected"
        /\ pc[r] = "rejected" => (pc'[r] = "rejected" /\ req'[r] = req[r])

C7_InvalidDepositNoWrite == [][C7_Step]_vars

\* C7 witness: every request slot was a rejected deposit of the same user,
\* one of NaN and one just above the maximum, and the tables are as they
\* started.
C7_Witness ==
    /\ \A r \in Reqs : pc[r] = "rejected" /\ req[r].op = "deposit" /\ req[r].user = 1
    /\ \E r \in Reqs : req[r].amount = Num(400000001)
    /\ \E r \in Reqs : req[r].amount = NaN
    /\ wallet_accounts = {} /\ wallet_transactions = {}
    /\ wallet_seq = 1 /\ tx_seq = 1

RentalsOf(u) == {ur \in user_rentals : ur.user_id = u}
ActiveOf(u) == {ur \in RentalsOf(u) : ur.status = "active"}

\* C2: in every state a request can observe, a user has at most one rental
\* with status 'active'.
C2_AtMostOneActive ==
    \A u \in Users : Cardinality(ActiveOf(u)) <= 1

\* C3: the writes of subscribe are atomic: no state, seen by another request
\* or left by a failure, has the user's prior active rental expired and no
\* new active rental (a user with rentals always has an active one).
C3_NeverExpiredWithoutNew ==
    \A u \in Users : RentalsOf(u) # {} => ActiveOf(u) # {}

\* C8: when a subscribe of u completes and no other request of u ran in
\* between: exactly one rental of u is active and it is the new one, every
\* rental the subscribe found active is expired, the new total_price is the
\* plan's monthly price times months (pro x 3 = 7497), and users.plan is the
\* plan's code; also when u subscribes again to the plan u holds.
PriceOf(code) ==
    (CHOOSE p \in SeedPlans : p.code = code).monthly_price

MonthsAsked(m) ==
    IF m = Absent THEN 1 ELSE m.q

C8_Step ==
    \A r \in Reqs :
        (pc[r] = "set_plan" /\ pc'[r] = "done") =>
            LET u == req[r].user
                act == {ur \in user_rentals' : ur.user_id = u /\ ur.status = "active"}
            IN  /\ Cardinality(act) = 1
                /\ \A ur \in act :
                      /\ ur.id = loc[r].rental
                      /\ ur.total_price = PriceOf(req[r].planCode) * MonthsAsked(req[r].months)
                      /\ (req[r].planCode = "pro" /\ req[r].months = Num(3))
                            => ur.total_price = 7497
                /\ \A ur \in user_rentals' :
                      ur.id \in loc[r].expired => ur.status = "expired"
                /\ users_plan'[u] = req[r].planCode

C8_SubscribeReplacesActive == [][C8_Step]_vars

\* C8 witness: a completed subscribe pro x 3 that expired a rental of the
\* same plan: the new row is the user's only active one, priced 7497.
C8_Witness ==
    \E r \in Reqs :
        /\ pc[r] = "done" /\ req[r].op = "subscribe"
        /\ req[r].planCode = "pro" /\ req[r].months = Num(3)
        /\ loc[r].expired # {}
        /\ \A ur \in user_rentals :
              ur.id \in loc[r].expired => (ur.status = "expired" /\ ur.plan_id = 3)
        /\ users_plan[req[r].user] = "pro"
        /\ \E ur \in user_rentals :
              /\ ur.id = loc[r].rental /\ ur.total_price = 7497
              /\ ActiveOf(req[r].user) = {ur}

\* C9: a subscribe whose plan code has no rental_plans row, or only a row
\* with active = FALSE, ends with 404 and writes nothing: no rental row, no
\* status change, users.plan as it was.
NoActivePlan(code) ==
    \A p \in rental_plans : p.code = code => p.active = FALSE

C9_Step ==
    \A r \in Reqs :
        /\ (req[r].op = "subscribe" /\ pc[r] = "sel_plan"
              /\ pc'[r] \notin {"sel_plan", "failed", "aborted"}
              /\ NoActivePlan(req[r].planCode))
             => (pc'[r] = "notfound" /\ UNCHANGED dbvars)
        /\ pc[r] = "notfound" => pc'[r] = "notfound"
        /\ pc'[r] = "notfound" => NoActivePlan(req'[r].planCode)

C9_UnknownPlanNoEffect == [][C9_Step]_vars

\* C9 witness: a user holding an active pro rental asked for the switched-off
\* plan, got 404, and the rental is still active and users.plan still pro.
C9_Witness ==
    \E r \in Reqs :
        /\ pc[r] = "notfound" /\ req[r].planCode = "growth"
        /\ \E p \in rental_plans : p.code = "growth" /\ ~p.active
        /\ Cardinality(ActiveOf(req[r].user)) = 1
        /\ Cardinality(RentalsOf(req[r].user)) = 1
        /\ users_plan[req[r].user] = "pro"

\* C10: a subscribe whose months is not a positive integer or exceeds 24, or
\* whose planCode is empty, is answered 400 before any write; months = 24 is
\* accepted and absent months count as 1.
ClaimBadMonths(m) ==
    \/ m.kind \in {"frac", "nan"}
    \/ m.kind = "num" /\ (m.q < 1 \/ m.q > 24)

C10_Step ==
    \A r \in Reqs :
        /\ (pc[r] = "idle" /\ pc'[r] # "idle" /\ req'[r].op = "subscribe") =>
              /\ (ClaimBadMonths(req'[r].months) \/ req'[r].planCode \in {"", "   "}) =>
                    (pc'[r] = "rejected" /\ UNCHANGED dbvars)
              /\ (req'[r].months \in {Num(24), Absent} /\ req'[r].planCode \notin {"", "   "})
                    => pc'[r] = "sel_plan"
        /\ (req[r].op = "subscribe" /\ pc[r] = "rejected")
              => (pc'[r] = "rejected" /\ req'[r] = req[r])
        /\ (pc[r] = "ins_rental" /\ pc'[r] = "set_plan") =>
              \E ur \in user_rentals' \ user_rentals :
                  /\ ur.id = loc'[r].rental
                  /\ req[r].months = Absent => ur.months = 1
                  /\ req[r].months = Num(24) => ur.months = 24

C10_BadMonthsRejected == [][C10_Step]_vars

\* C10 witness: a request with fractional months was rejected and a request
\* without months got a rental of one month; no other rental row exists.
C10_Witness ==
    /\ \E r \in Reqs : pc[r] = "rejected" /\ req[r].months = Frac(1)
    /\ \E r \in Reqs :
          /\ pc[r] = "done" /\ req[r].months = Absent
          /\ user_rentals = {[id |-> 1, user_id |-> req[r].user, plan_id |-> 2,
                              months |-> 1, total_price |-> 999, status |-> "active",
                              created_at |-> Epoch, ends_at |-> PlusMonths(Epoch, 1)]}

\* C11: the quota check denies (403, no video_jobs row) exactly when the
\* user has an active rental and the user's video_jobs count is at least the
\* max_video_jobs of that rental's plan (starter: 30 denies, 29 allows); it
\* always allows a user without an active rental.
PlanLimit(ur) ==
    (CHOOSE p \in SeedPlans : p.id = ur.plan_id).max_video_jobs

C11_Step ==
    \A r \in Reqs :
        LET u == req[r].user
            jobs == Cardinality({v \in video_jobs : v.user_id = u})
            over == \E ur \in ActiveOf(u) : jobs >= PlanLimit(ur)
        IN  /\ (pc[r] \in {"sel_rental", "count"}
                  /\ pc'[r] \in {"denied", "ins_video"})
                 => /\ pc'[r] = "denied" <=> over
                    /\ pc'[r] = "denied" => UNCHANGED dbvars
            /\ (pc[r] = "sel_rental" /\ pc'[r] = "count") => ActiveOf(u) # {}
            /\ (pc[r] = "count" /\ pc'[r] = "ins_video"
                  /\ \A ur \in ActiveOf(u) : ur.plan_id = 1) => jobs <= 29
            /\ pc[r] = "denied" => (pc'[r] = "denied" /\ req'[r] = req[r])
            /\ (pc[r] = "ins_video" /\ pc'[r] = "done") =>
                  \E v \in video_jobs' \ video_jobs : v.user_id = u

C11_QuotaCheck == [][C11_Step]_vars

\* C11 witness: user 1, on starter, had 29 jobs: one request was allowed and
\* made the 30th, the next was denied at 30 jobs; user 2 holds no rental and
\* has 30 jobs already.
C11_Witness ==
    /\ \E r \in Reqs : pc[r] = "done" /\ req[r].op = "video" /\ req[r].user = 1
    /\ \E r \in Reqs : pc[r] = "denied" /\ req[r].user = 1
    /\ Cardinality({v \in video_jobs : v.user_id = 1}) = 30
    /\ ActiveOf(1) # {} /\ ActiveOf(2) = {}
    /\ Cardinality({v \in video_jobs : v.user_id = 2}) = 30

\* C12: once every subscribe request has completed (none in flight, none
\* failed or aborted), users.plan of a user who has exactly one active rental
\* is the plan code of that rental, and a user without rental has plan 'free'.
CodeOf(ur) ==
    (CHOOSE p \in SeedPlans : p.id = ur.plan_id).code

C12_PlanNeverDrifts ==
    (\A r \in Reqs : pc[r] \in {"idle", "done", "rejected", "notfound"}) =>
        \A u \in Users :
            /\ RentalsOf(u) = {} => users_plan[u] = "free"
            /\ Cardinality(ActiveOf(u)) = 1 =>
                  \A ur \in ActiveOf(u) : users_plan[u] = CodeOf(ur)

\* C13: what listTransactions returned is in strictly descending created_at
\* order (no two entries returned share a created_at), holds each row once,
\* and has at most 100 entries.
CreatedAt(id) ==
    (CHOOSE t \in wallet_transactions : t.id = id).created_at

C13_ListStrictlyDescending ==
    \A r \in Reqs :
        (req[r].op = "list" /\ pc[r] = "done") =>
            /\ Len(loc[r].rows) <= 100
            /\ \A i, j \in DOMAIN loc[r].rows :
                  i < j => Before(CreatedAt(loc[r].rows[j]), CreatedAt(loc[r].rows[i]))

\* C14: a rental row, once inserted (as active, by a subscribe of its user),
\* keeps every column but status; its status changes only from active to
\* expired, and only in the expiring UPDATE of a subscribe of the same user;
\* an expired rental stays expired, and a step in which time passes changes
\* no rental.
C14_Step ==
    /\ \A ur \in user_rentals :
          \E nw \in user_rentals' :
              /\ nw = [ur EXCEPT !.status = nw.status]
              /\ \/ nw.status = ur.status
                 \/ /\ ur.status = "active" /\ nw.status = "expired"
                    /\ \E r \in Reqs : /\ pc[r] = "expire" /\ pc'[r] = "ins_rental"
                                       /\ req[r].user = ur.user_id
    /\ \A nw \in user_rentals' :
          (\A ur \in user_rentals : ur.id # nw.id) =>
              /\ nw.status = "active"
              /\ \E r \in Reqs : /\ pc[r] = "ins_rental" /\ pc'[r] = "set_plan"
                                 /\ req[r].user = nw.user_id
    /\ Cardinality(user_rentals') >= Cardinality(user_rentals)
    /\ clock' # clock => user_rentals' = user_rentals

C14_StatusTransitions == [][C14_Step]_vars

\* C14 witness: a user's first rental ran past its ends_at, was then expired
\* by the user's second subscribe, and the second rental is active although
\* its ends_at has passed as well.
C14_Witness ==
    \E u \in Users : \E a, b \in RentalsOf(u) :
        /\ a.status = "expired" /\ b.status = "active"
        /\ Before(a.ends_at, b.created_at)
        /\ Before(b.ends_at, clock)
        /\ RentalsOf(u) = {a, b}

\* C15: ensureWallet on a user who has a wallet (also one with deposits)
\* leaves wallet_accounts as it is (the row's id, balance and currency, and
\* the number of rows) and returns the id of that row; for a user without
\* wallet it adds one row with balance 0 and the default currency.
C15_Step ==
    \A r \in Reqs :
        LET u == req[r].user
        IN  /\ (pc[r] = "ew_insert" /\ pc'[r] = "ew_select") =>
                  IF WalletsOf(u) # {}
                  THEN wallet_accounts' = wallet_accounts
                  ELSE \E w \in wallet_accounts' \ wallet_accounts :
                          /\ wallet_accounts' = wallet_accounts \cup {w}
                          /\ w.user_id = u /\ w.balance = 0 /\ w.currency = "THB"
            /\ (pc[r] = "ew_select" /\ pc'[r] \in {"begin", "done"}) =>
                  /\ wallet_accounts' = wallet_accounts
                  /\ \A w \in WalletsOf(u) : loc'[r].wallet = w.id

C15_EnsureWalletIdempotent == [][C15_Step]_vars

\* C15 witness: a user's deposit is committed, and a GET /wallet of the same
\* user, the second call of ensureWallet for that user, returned the wallet
\* of the deposit: one row, with the deposited balance.
C15_Witness ==
    \E r1, r2 \in Reqs :
        /\ req[r1].op = "deposit" /\ pc[r1] = "done"
        /\ req[r2].op = "wallet" /\ pc[r2] = "done" /\ req[r2].user = req[r1].user
        /\ loc[r2].wallet = loc[r1].wallet
        /\ wallet_seq = 3
        /\ \E w \in wallet_accounts :
              wallet_accounts = {w} /\ w.id = loc[r2].wallet /\ w.balance > 0

\* C16: in every step, a wallet balance changes only in the COMMIT of a
\* deposit to that wallet, and a rental status changes, or a rental appears,
\* only in the expiring UPDATE or the INSERT of a subscribe of that user; no
\* wallet and no rental disappears.  Hence the steps of every other
\* operation, and rejected deposits and subscribes, leave both unchanged.
C16_Step ==
    /\ \A w \in wallet_accounts :
          \E nw \in wallet_accounts' :
              /\ nw.id = w.id
              /\ \/ nw.balance = w.balance
                 \/ \E r \in Reqs : /\ req[r].op = "deposit" /\ ~DepositRejects(req[r].amount)
                                    /\ pc[r] = "commit" /\ pc'[r] = "done"
                                    /\ loc[r].wallet = w.id
    /\ \A nw \in wallet_accounts' :
          (\A w \in wallet_accounts : w.id # nw.id) => nw.balance = 0
    /\ \A ur \in user_rentals :
          \E nr \in user_rentals' :
              /\ nr.id = ur.id
              /\ \/ nr.status = ur.status
                 \/ \E r \in Reqs : /\ req[r].op = "subscribe"
                                    /\ pc[r] = "expire" /\ pc'[r] = "ins_rental"
                                    /\ req[r].user = ur.user_id
    /\ \A nr \in user_rentals' :
          (\A ur \in user_rentals : ur.id # nr.id) =>
              \E r \in Reqs : /\ req[r].op = "subscribe"
                              /\ ~SubscribeRejects(req[r].planCode, req[r].months)
                              /\ pc[r] = "ins_rental" /\ pc'[r] = "set_plan"
    /\ \A r \in Reqs :
          (req'[r].op \notin {"deposit", "subscribe"} /\ pc'[r] # pc[r] /\ pc'[r] # "aborted")
             => /\ {<<w.id, w.balance>> : w \in wallet_accounts}
                     \subseteq {<<w.id, w.balance>> : w \in wallet_accounts'}
                /\ {<<ur.id, ur.status>> : ur \in user_rentals}
                     = {<<ur.id, ur.status>> : ur \in user_rentals'}

C16_OnlyDepositAndSubscribeWrite == [][C16_Step]_vars

\* C16 witness: the user's wallet holds a deposit; the listing that followed
\* the deposit returned its row and a video generation has inserted its job,
\* and the balance is still the amount deposited.
C16_Witness ==
    /\ \E w \in WalletsOf(1) : w.balance = 100
    /\ \E r \in Reqs : req[r].op = "list" /\ pc[r] = "done" /\ Len(loc[r].rows) = 1
    /\ \E r \in Reqs : req[r].op = "video" /\ pc[r] = "done"
    /\ Cardinality(video_jobs) = 1

\* C17: wallet_transactions is append-only: every committed row is in the
\* table after every step, with every column as it was.
C17_Step ==
    wallet_transactions \subseteq wallet_transactions'

C17_TransactionsAppendOnly == [][C17_Step]_vars

\* C17 witness: two deposits to one wallet have committed one after the
\* other and a third transaction-row id was drawn: both rows are there.
C17_Witness ==
    /\ Cardinality(wallet_transactions) = 2
    /\ \E t1, t2 \in wallet_transactions :
          t1.id < t2.id /\ t1.wallet_id = t2.wallet_id /\ t1.amount > 0 /\ t2.amount > 0
    /\ \A r \in Reqs : pc[r] = "done"

\* C18: in every reachable state every wallet balance is >= 0.
C18_BalanceNonNegative ==
    \A w \in wallet_accounts : w.balance >= 0

\* C18 witness: a wallet whose only deposit was the smallest accepted amount
\* holds the smallest balance a deposit can leave, and another wallet holds
\* the largest single deposit.
C18_Witness ==
    /\ \E w \in wallet_accounts : TxOf(w) # {} /\ w.balance = 0
    /\ \E w \in wallet_accounts : w.balance = 100000000

\* C19: every committed wallet_transactions row has a stored amount > 0.
C19_StoredAmountPositive ==
    \A t \in wallet_transactions : t.amount > 0

\* C20: the aggregation snapshot taken on a database without users,
\* rentals, wallets and transactions answers with total_users,
\* active_rentals, rental_revenue_total, wallet_balance_total and
\* completed_deposit_total all 0 (as are the job and upload counts) and with
\* empty lists of recent transactions and top wallets; and no query of the
\* snapshot, on any database, writes.
EmptyDatabase ==
    /\ DOMAIN users_plan = {}
    /\ user_rentals = {} /\ wallet_accounts = {} /\ wallet_transactions = {}

C20_Step ==
    \A r \in Reqs :
        /\ (req[r].op = "meta" /\ pc[r] = "query" /\ loc'[r] # loc[r]) => UNCHANGED dbvars
        /\ (req[r].op = "meta" /\ pc[r] = "query" /\ pc'[r] = "done" /\ EmptyDatabase) =>
              loc'[r].results = <<0, 0, 0, 0, 0, 0, 0, <<>>, <<>>>>

C20_SnapshotOnEmptyDatabase == [][C20_Step]_vars

\* C20 witness: on the database without users an admin's snapshot request
\* has answered with the zero totals and the tables are still empty.
C20_Witness ==
    /\ EmptyDatabase
    /\ wallet_seq = 1 /\ tx_seq = 1 /\ rental_seq = 1
    /\ \E r \in Reqs :
          /\ req[r].op = "meta" /\ pc[r] = "done"
          /\ loc[r].results = <<0, 0, 0, 0, 0, 0, 0, <<>>, <<>>>>

\* C22: a user who holds the same active rental throughout and started with
\* at most max_video_jobs video jobs never has more video_jobs rows than
\* the plan's max_video_jobs, whatever the interleaving of that user's
\* video-generation requests.
C22_QuotaNeverExceeded ==
    \A u \in Users : \A ur \in ActiveOf(u) :
        Cardinality({v \in video_jobs : v.user_id = u}) <= PlanLimit(ur)

\* C24: every meta-dashboard snapshot that has answered reports
\* wallet_balance_total (the sixth query's result) equal to
\* completed_deposit_total (the seventh's), also when deposits commit while
\* the snapshot's queries run.
C24_SnapshotTotalsAgree ==
    \A r \in Reqs :
        (req[r].op = "meta" /\ pc[r] = "done") =>
            loc[r].results[6] = loc[r].results[7]

\* C23: every client a deposit request acquires from the pool is released
\* exactly once: a request holds at most one client, holds it unreleased
\* while its transaction's statements (and the ROLLBACK) run, and has
\* released it once when it has answered -- after COMMIT, after a failure of
\* BEGIN, UPDATE, INSERT or COMMIT, and when the ROLLBACK itself failed; a
\* request that never got a client releases none.
C23_ClientReleasedOnce ==
    \A r \in Reqs :
        /\ client[r].acquired <= 1
        /\ client[r].released <= client[r].acquired
        /\ pc[r] \in {"begin", "update", "insert", "commit", "rollback"} =>
              (client[r].acquired = 1 /\ client[r].released = 0)
        /\ pc[r] \in {"done", "failed", "rejected", "conflict"} =>
              client[r].released = client[r].acquired

\* C23 witness: one deposit committed and one failed inside its try block
\* (500); each has acquired one client and released it once.
C23_Witness ==
    /\ \E r \in Reqs : /\ pc[r] = "done" /\ req[r].op = "deposit"
                       /\ client[r] = [acquired |-> 1, released |-> 1]
    /\ \E r \in Reqs : /\ pc[r] = "failed" /\ res[r].status = 500
                       /\ client[r] = [acquired |-> 1, released |-> 1]
    /\ Cardinality(wallet_transactions) = 1

\* C21: every error outcome has a distinguishable kind.  A request whose
\* input fails validation is answered 400, a missing plan or product 404
\* and a reached quota 403, each with its own message; a storage failure in
\* deposit or subscribe is answered with a 5xx status and the fixed generic
\* text, never the message of the error that was thrown; and only a
\* success is answered 200.
ValidationMessages ==
    {"amount must be > 0", "amount too large", "months must be a positive integer",
     "planCode is required", "months must be <= 24", "productDbId must be a positive integer"}

ClaimInvalid(q) ==
    \/ q.op = "deposit" /\ ClaimBadAmount(q.amount)
    \/ q.op = "subscribe" /\ (ClaimBadMonths(OrOne(q.months)) \/ q.planCode \in {"", "   "})
    \/ q.op = "video" /\ (q.productDbId.kind # "num" \/ q.productDbId.q < 1)

C21_Step ==
    \A r \in Reqs :
        LET q == IF pc[r] = "idle" THEN req'[r] ELSE req[r]
            a == res'[r]
        IN  (res[r] = NoRes /\ a # NoRes) =>
              /\ ClaimInvalid(q) <=> a.status = 400
              /\ a.status = 400 => a.error \in ValidationMessages
              /\ pc'[r] = "notfound" <=> a.status = 404
              /\ a.status = 404 =>
                    a.error = (IF q.op = "subscribe" THEN "Plan not found" ELSE "Product not found")
              /\ pc'[r] = "denied" <=> a.status = 403
              /\ a.status = 403 => a.error = "Plan limit reached. Please rent a higher plan."
              /\ (pc'[r] = "failed" /\ q.op \in {"deposit", "subscribe"}) =>
                    /\ a.status >= 500 /\ a.status < 600
                    /\ a.error = "Internal server error"
                    /\ a.error \notin {e.message : e \in StoreErrors \cup {TypeError}}
              /\ pc'[r] = "done" <=> a = Ok
              /\ a.status >= 500 <=> pc'[r] = "failed"

C21_ErrorKinds == [][C21_Step]_vars

\* C21 witness: a deposit or subscribe whose statement the store rejected
\* was answered 500 with the generic text, and a video request at the quota
\* was answered 403 with the quota message.
C21_Witness ==
    /\ \E r \in Reqs : pc[r] = "failed" /\ res[r] = Json(500, "Internal server error")
    /\ \E r \in Reqs :
          /\ pc[r] = "denied"
          /\ res[r] = Json(403, "Plan limit reached. Please rent a higher plan.")

\* C25: the limiter is a fixed-window counter per (ip, path) key.  A request
\* of a key without entry, or arriving more than 15 minutes after the
\* entry's startedAt, is passed on and leaves the entry at count 1 with
\* startedAt the arrival time; within the window a request is passed on and
\* counted while the count is below 30, and from count 30 on is answered 429
\* with the entry unchanged, so no window passes more than 30; the entries
\* of other keys never change.
C25_Step ==
    (dateNow' = dateNow /\ req'[1].op = "auth") =>
        LET key == <<req'[1].ip, req'[1].path>>
            KeyOf(k) == CHOOSE b \in AuthInputs : RateKey(b.ip, b.path) = k
            same == {k \in DOMAIN authRateMap : <<KeyOf(k).ip, KeyOf(k).path>> = key}
            passed == pc'[1] = "next" /\ res'[1] = NoRes
            limited == pc'[1] = "limited" /\ res'[1].status = 429
        IN  /\ Cardinality(same) <= 1
            /\ \A k \in DOMAIN authRateMap \ same :
                  k \in DOMAIN authRateMap' /\ authRateMap'[k] = authRateMap[k]
            /\ \E k \in DOMAIN authRateMap' :
                  /\ <<KeyOf(k).ip, KeyOf(k).path>> = key
                  /\ DOMAIN authRateMap' = DOMAIN authRateMap \cup {k}
                  /\ authRateMap'[k].count <= 30
                  /\ IF same = {} \/ dateNow - authRateMap[k].startedAt > 900000
                     THEN passed /\ authRateMap'[k] = [count |-> 1, startedAt |-> dateNow]
                     ELSE IF authRateMap[k].count < 30
                     THEN /\ passed
                          /\ authRateMap'[k] = [count |-> authRateMap[k].count + 1,
                                                startedAt |-> authRateMap[k].startedAt]
                     ELSE limited /\ authRateMap'[k] = authRateMap[k]

C25_FixedWindowPerKey == [][C25_Step]_vars

\* C25 witness: exactly 15 minutes after its window started one address has
\* used its 30 requests and its 31st has been answered 429, while the other
\* address, whose window had started a millisecond earlier, has begun a new
\* window with count 1.
C25_Witness ==
    /\ dateNow = 900001
    /\ pc[1] = "limited" /\ res[1].status = 429 /\ req[1].ip = "10.0.0.1"
    /\ authRateMap[RateKey("10.0.0.1", "/login")] = [count |-> 30, startedAt |-> 1]
    /\ RateKey("10.0.0.2", "/login") \in DOMAIN authRateMap
    /\ authRateMap[RateKey("10.0.0.2", "/login")] = [count |-> 1, startedAt |-> 900001]

====
